---- MODULE Spec2Model ----
(***************************************************************************)
(* A model of freeotp-export.py: the unwrap / decode / encode / layout     *)
(* pipeline run by `main` under --qrcodes, and its pure helpers            *)
(* (secret_to_b32, query_data, the URI construction, the page layout).     *)
(*                                                                         *)
(* Strings are sequences of code points (Python str), so that quoting,     *)
(* Base32 and the lexicographic sort are computed, not assumed.            *)
(***************************************************************************)
EXTENDS Integers, Sequences, FiniteSets, TLC

VARIABLES
    \* ---- main(), --qrcodes branch ----
    pc,            \* position of the run in main() and its callees
    backupFile,    \* workdir/freeotp-backup.ab: what the container file holds
    tokensFile,    \* workdir/apps/.../tokens.xml: "absent" or the credential document
    adbDoc,        \* the credential document held by the device (what a backup would carry)
    tokens,        \* parse_tokens_from_xml: the list being built
    name,          \* parse_tokens_from_xml: the loop's local `name` ("UNBOUND" before the first iteration)
    k,             \* parse_tokens_from_xml: entries of root.findall("string") consumed
    i,             \* generate_images: the counter i
    qrcode_list,   \* generate_images: the list being built, (label, file) pairs
    uris,          \* the URIs handed to qrcode.make, in order
    images,        \* the image files saved under workdir/qrcodes
    pdfWritten,    \* whether pdf.output() has written workdir/qrcodes.pdf in this run
    ran,           \* history: the stages entered by this run, in order
    error,         \* history: why the run aborted ("none" while it has not)
    \* ---- write_to_pdf_file / generate_doc ----
    layoutList,    \* the qrcode_list argument of write_to_pdf_file
    idx,           \* entries of layoutList consumed by the for loop
    x, y,          \* the cursor
    pages,         \* pages of the FPDF object
    placed,        \* the add_image calls made, in order
    \* ---- secret_to_b32 as a function ----
    secret, code, decoded,
    \* ---- the URI of one token, for two tokens ----
    tokenA, tokenB, uriA, uriB

pipeVars   == <<pc, backupFile, tokensFile, adbDoc, tokens, name, k, i, qrcode_list,
                uris, images, pdfWritten, ran, error>>
layoutVars == <<layoutList, idx, x, y, pages, placed>>
secretVars == <<secret, code, decoded>>
uriVars    == <<tokenA, tokenB, uriA, uriB>>
vars       == <<pipeVars, layoutVars, secretVars, uriVars>>

----------------------------------------------------------------------------
(* Bounds of the model                                                     *)

MaxSecretLen == 5     \* secrets of length 1..MaxSecretLen (one full Base32 quantum)
MaxEntries   == 26    \* the layout is run on lists of 0..MaxEntries entries
MaxDoc       == 3     \* credential documents of 0..MaxDoc <string> elements
MaxTokens    == 2     \* generate_images called on 0..MaxTokens tokens

----------------------------------------------------------------------------
(* Sequences and strings                                                   *)

RECURSIVE Concat(_)
Concat(ss) == IF ss = <<>> THEN <<>> ELSE Head(ss) \o Concat(Tail(ss))

SeqsUpTo(S, n) == UNION { [1..m -> S] : m \in 0..n }

\* Python's str < str: by code point, a proper prefix is smaller.
RECURSIVE StrLess(_, _)
StrLess(a, b) ==
    IF b = <<>> THEN FALSE
    ELSE IF a = <<>> THEN TRUE
    ELSE IF Head(a) # Head(b) THEN Head(a) < Head(b)
    ELSE StrLess(Tail(a), Tail(b))

\* str(n) of a non-negative int: its decimal digits.
RECURSIVE IntToStr(_)
IntToStr(n) == IF n < 10 THEN <<48 + n>> ELSE IntToStr(n \div 10) \o <<48 + (n % 10)>>

\* str.lower() on ASCII.
lower(s) == [j \in 1..Len(s) |-> IF s[j] \in 65..90 THEN s[j] + 32 ELSE s[j]]

----------------------------------------------------------------------------
(* secret_to_b32                                                           *)

\* The bits of a byte, most significant first.
ByteBits(b) == [j \in 1..8 |-> (b \div (2 ^ (8 - j))) % 2]

\* The RFC 4648 Base32 alphabet: A-Z then 2-7.
B32Char(v) == IF v < 26 THEN 65 + v ELSE 50 + (v - 26)

\* The number of '=' that end the encoding of a final group of r bytes.
B32Pad(r) == CASE r = 0 -> 0 [] r = 1 -> 6 [] r = 2 -> 4 [] r = 3 -> 3 [] r = 4 -> 1

Quint(bits, g) == 16 * bits[5*g - 4] + 8 * bits[5*g - 3] + 4 * bits[5*g - 2]
                  + 2 * bits[5*g - 1] + bits[5*g]

\* base64.b32encode: 5-byte groups, the last one zero-filled, 8 characters a
\* group, the characters that carry no data replaced by '='.
b32encode(bytes) ==
    LET r      == Len(bytes) % 5
        filled == IF r = 0 THEN bytes ELSE bytes \o [j \in 1..(5 - r) |-> 0]
        bits   == Concat([j \in 1..Len(filled) |-> ByteBits(filled[j])])
        n      == Len(bits) \div 5
        pad    == B32Pad(r)
    IN  [g \in 1..n |-> IF g > n - pad THEN 61 ELSE B32Char(Quint(bits, g))]

\* A normalisation with `& 127`: the sign bit is lost.
secret_to_b32_mask7(sec) == b32encode([j \in 1..Len(sec) |-> (sec[j] + 256) % 128])

\* bytes((x + 256) & 255 for x in secret), then b32encode, then decode() to str.
secret_to_b32(sec) == b32encode([j \in 1..Len(sec) |-> (sec[j] + 256) % 256])

(* base64.b32decode, the inverse the round trip is stated with.            *)
B32Val(c) == IF c \in 65..90 THEN c - 65 ELSE c - 50 + 26

QuintBits(v) == [j \in 1..5 |-> (v \div (2 ^ (5 - j))) % 2]

BitsByte(bits, n) == LET o == 8 * (n - 1)
                     IN  128 * bits[o+1] + 64 * bits[o+2] + 32 * bits[o+3] + 16 * bits[o+4]
                         + 8 * bits[o+5] + 4 * bits[o+6] + 2 * bits[o+7] + bits[o+8]

b32decode(s) ==
    LET data == SelectSeq(s, LAMBDA c : c # 61)
        bits == Concat([j \in 1..Len(data) |-> QuintBits(B32Val(data[j]))])
    IN  [n \in 1..(Len(bits) \div 8) |-> BitsByte(bits, n)]

\* The signed reading of an unsigned byte.
ToSigned(b) == IF b > 127 THEN b - 256 ELSE b

----------------------------------------------------------------------------
(* String constants of the source                                          *)

S_otpauth   == <<111, 116, 112, 97, 117, 116, 104, 58, 47, 47>>   \* "otpauth://"
S_secret    == <<115, 101, 99, 114, 101, 116>>                    \* "secret"
S_issuer    == <<105, 115, 115, 117, 101, 114>>                   \* "issuer"
S_algorithm == <<97, 108, 103, 111, 114, 105, 116, 104, 109>>     \* "algorithm"
S_digits    == <<100, 105, 103, 105, 116, 115>>                   \* "digits"
S_period    == <<112, 101, 114, 105, 111, 100>>                   \* "period"
S_Unknown   == <<85, 110, 107, 110, 111, 119, 110>>               \* "Unknown"

----------------------------------------------------------------------------
(* urllib.parse.quote and query_data                                       *)

\* str.encode('utf-8') of one code point (up to U+FFFF).
Utf8(c) == IF c < 128 THEN <<c>>
           ELSE IF c < 2048 THEN <<192 + (c \div 64), 128 + (c % 64)>>
           ELSE <<224 + (c \div 4096), 128 + ((c \div 64) % 64), 128 + (c % 64)>>

HexDigit(d) == IF d < 10 THEN 48 + d ELSE 55 + d

\* quote's always-safe bytes (letters, digits, "_.-~") and its default safe='/'.
IsSafe(b) == \/ b \in 65..90 \/ b \in 97..122 \/ b \in 48..57
             \/ b \in {95, 46, 45, 126} \/ b = 47

QuoteByte(b) == IF IsSafe(b) THEN <<b>> ELSE <<37, HexDigit(b \div 16), HexDigit(b % 16)>>

\* A quote that drops the bytes it should escape.
quote_drop(s) ==
    LET bytes == Concat([j \in 1..Len(s) |-> Utf8(s[j])])
    IN  SelectSeq(bytes, IsSafe)

\* urllib.parse.quote(s): UTF-8, every byte outside the safe set as %XX.
quote(s) ==
    LET bytes == Concat([j \in 1..Len(s) |-> Utf8(s[j])])
    IN  Concat([j \in 1..Len(bytes) |-> QuoteByte(bytes[j])])

\* "&".join(quote(d) + "=" + quote(p[d]) for d in p); p in insertion order,
\* a sequence of <<key, value>> pairs.
RECURSIVE query_data(_)
query_data(p) ==
    IF p = <<>> THEN <<>>
    ELSE LET kv == quote(Head(p)[1]) \o <<61>> \o quote(Head(p)[2])
         IN  IF Len(p) = 1 THEN kv ELSE kv \o <<38>> \o query_data(Tail(p))

----------------------------------------------------------------------------
(* generate_images: one token                                              *)

\* A token is a dict: a function from the keys present to their values.
\* token.get(f) is truthy iff the key is present and its string is non-empty.
Truthy(token, f) == f \in DOMAIN token /\ token[f] # <<>>

RequiredKeys == {"secret", "algo", "digits", "period", "label", "type"}

\* The subscripts token['...'] of one iteration raise KeyError unless these hold.
HasKeys(token) == RequiredKeys \subseteq DOMAIN token

\* An issuer chain that consults issuerExt before issuerInt.
Issuer_ExtFirst(token, n) ==
    IF Truthy(token, "issuerExt") THEN token["issuerExt"]
    ELSE IF Truthy(token, "issuerInt") THEN token["issuerInt"]
    ELSE IF Truthy(token, "issuerAlt") THEN token["issuerAlt"]
    ELSE IF Truthy(token, "labelAlt") THEN token["labelAlt"]
    ELSE S_Unknown \o IntToStr(n)

\* The if/elif chain that picks the issuer; n is the counter i.
Issuer(token, n) ==
    IF Truthy(token, "issuerInt") THEN token["issuerInt"]
    ELSE IF Truthy(token, "issuerExt") THEN token["issuerExt"]
    ELSE IF Truthy(token, "issuerAlt") THEN token["issuerAlt"]
    ELSE IF Truthy(token, "labelAlt") THEN token["labelAlt"]
    ELSE S_Unknown \o IntToStr(n)

\* label = f'{issuerExt}:{label}' if token.get('issuerExt') else token['label']
Label(token) ==
    IF Truthy(token, "issuerExt") THEN token["issuerExt"] \o <<58>> \o token["label"]
    ELSE token["label"]

\* The param dict, in its insertion order.
Param(token, n) ==
    << <<S_secret,    secret_to_b32(token["secret"])>>,
       <<S_issuer,    Issuer(token, n)>>,
       <<S_algorithm, token["algo"]>>,
       <<S_digits,    IntToStr(token["digits"])>>,
       <<S_period,    IntToStr(token["period"])>> >>

\* uri = f'otpauth://{type.lower()}/{quote(label)}?{query_data(param)}'
Uri(token, n) ==
    S_otpauth \o lower(token["type"]) \o <<47>> \o quote(Label(token))
              \o <<63>> \o query_data(Param(token, n))

\* The file name f"{i}.png" is modelled by its number i.
ImageFile(n) == n

----------------------------------------------------------------------------
(* sorted(qrcode_list, key=lambda qc: qc[0])                               *)

\* Insert e after every element whose key is not greater: the sort is stable.
RECURSIVE InsertByKey(_, _)
InsertByKey(e, s) ==
    IF s = <<>> THEN <<e>>
    ELSE IF StrLess(e[1], Head(s)[1]) THEN <<e>> \o s
    ELSE <<Head(s)>> \o InsertByKey(e, Tail(s))

RECURSIVE SortFrom(_, _)
SortFrom(done, rest) ==
    IF rest = <<>> THEN done ELSE SortFrom(InsertByKey(Head(rest), done), Tail(rest))

\* A main() that hands the unsorted list to generate_doc.
sorted_identity(list) == list

sorted(list) == SortFrom(<<>>, list)

----------------------------------------------------------------------------
(* write_to_pdf_file: the cursor                                           *)

QRCODE_W == 35
QRCODE_H == 35

\* The row wrap with the page threshold used for x.
AfterWrap_250(cx, cy) == IF cx > 250 THEN <<10, cy + QRCODE_H + 13>> ELSE <<cx, cy>>

\* The row wrap without the code's height in the vertical step.
AfterWrap_noH(cx, cy) == IF cx > 150 THEN <<10, cy + 13>> ELSE <<cx, cy>>

\* if x > 150: x = 10; y = y + QRCODE_H + 13
AfterWrap(cx, cy) == IF cx > 150 THEN <<10, cy + QRCODE_H + 13>> ELSE <<cx, cy>>

\* The page test with >= for >.
NeedsPage_ge(cy) == cy >= 250

\* if y > 250: pdf.add_page(); x = 10; y = 10
NeedsPage(cy) == cy > 250

\* x = x + QRCODE_W + 60
Advance(cx) == cx + QRCODE_W + 60

----------------------------------------------------------------------------
(* Inputs: tokens and credential documents                                 *)

L_Zed   == <<90, 101, 100>>                                       \* "Zed"
L_Bob   == <<66, 111, 98>>                                        \* "Bob"
L_alice == <<97, 108, 105, 99, 101, 64, 120, 46, 99, 111, 109>>   \* "alice@x.com"
L_Acme  == <<65, 99, 109, 101>>                                   \* "Acme"
L_Int   == <<73, 110, 116>>                                       \* "Int"
L_Ext   == <<69, 120, 116>>                                       \* "Ext"
L_Alt   == <<65, 108, 116>>                                       \* "Alt"
L_LAlt  == <<76, 65, 108, 116>>                                   \* "LAlt"
L_TOTP  == <<84, 79, 84, 80>>                                     \* "TOTP"
L_HOTP  == <<72, 79, 84, 80>>                                     \* "HOTP"
L_SHA1  == <<83, 72, 65, 49>>                                     \* "SHA1"
L_SHA256 == <<83, 72, 65, 50, 53, 54>>                            \* "SHA256"

Without(token, f) == [g \in DOMAIN token \ {f} |-> token[g]]

\* token with field f set to v.
WithField(token, f, v) == [g \in DOMAIN token \cup {f} |-> IF g = f THEN v ELSE token[g]]

BaseToken(lbl) ==
    [type |-> L_TOTP, label |-> lbl, secret |-> <<-1, 1>>, algo |-> L_SHA1,
     digits |-> 6, period |-> 30]

\* The <string> elements a credential document is drawn from: the reserved
\* ordering entry, a value that is not JSON, a JSON object without 'secret',
\* and three complete tokens.
E_order    == [name |-> "tokenOrder", json |-> TRUE, obj |-> [order |-> <<>>]]
E_notjson  == [name |-> "k-bad", json |-> FALSE, obj |-> [raw |-> <<123>>]]
E_nosecret == [name |-> "k-nosecret", json |-> TRUE, obj |-> Without(BaseToken(L_Bob), "secret")]
E_zed      == [name |-> "k-zed", json |-> TRUE, obj |-> BaseToken(L_Zed)]
E_acme     == [name |-> "k-acme", json |-> TRUE,
               obj |-> BaseToken(L_alice) @@ [issuerExt |-> L_Acme]]
E_bob      == [name |-> "k-bob", json |-> TRUE,
               obj |-> WithField(BaseToken(L_Bob), "type", L_HOTP)
                       @@ [issuerAlt |-> L_Alt, labelAlt |-> L_LAlt]]

DocEntries == {E_order, E_notjson, E_nosecret, E_zed, E_acme, E_bob}

\* tokens.xml: not XML at all, or a <map> of 0..MaxDoc <string> elements.
Docs == {[xml |-> FALSE, entries |-> <<>>]}
        \cup {[xml |-> TRUE, entries |-> e] : e \in SeqsUpTo(DocEntries, MaxDoc)}

\* What freeotp-backup.ab can hold: no file, zero bytes, post-header bytes that
\* do not inflate, an archive without apps/.../tokens.xml, or a full backup.
ContainerStates == {"missing", "empty", "corrupt", "noentry", "good"}

----------------------------------------------------------------------------
(* main(), --qrcodes: parse_tokens_from_xml, extract_tokens_file,          *)
(* backup_freeotp                                                          *)

\* The first failure of the run is kept.
Failure(e) == error' = IF error = "none" THEN e ELSE error

InitLayoutIdle == layoutList = <<>> /\ idx = 0 /\ x = 10 /\ y = 10 /\ pages = 0 /\ placed = <<>>
InitSecretIdle == secret = <<>> /\ code = <<>> /\ decoded = <<>>
InitUriIdle    == tokenA = [label |-> <<>>] /\ tokenB = [label |-> <<>>] /\ uriA = <<>> /\ uriB = <<>>
InitEncodeIdle == i = 0 /\ qrcode_list = <<>> /\ uris = <<>> /\ images = {}

Init ==
    /\ pc = "main"
    /\ backupFile \in ContainerStates
    /\ tokensFile \in BOOLEAN
    /\ adbDoc \in Docs
    /\ tokens = <<>> /\ name = "UNBOUND" /\ k = 0
    /\ InitEncodeIdle
    /\ pdfWritten = FALSE /\ ran = <<>> /\ error = "none"
    /\ InitLayoutIdle /\ InitSecretIdle /\ InitUriIdle

\* parse_tokens_from_xml, line 72: extract only when tokens.xml is not there.
ParseEnter ==
    /\ pc = "main"
    /\ pc' = IF tokensFile THEN "parse" ELSE "extract"
    /\ UNCHANGED <<backupFile, tokensFile, adbDoc, tokens, name, k, i, qrcode_list, uris,
                   images, pdfWritten, ran, error, layoutVars, secretVars, uriVars>>

\* extract_tokens_file, line 52: back up only when the container is missing or empty.
ExtractEnter ==
    /\ pc = "extract"
    /\ pc' = IF backupFile \in {"missing", "empty"} THEN "backup" ELSE "unwrap"
    /\ UNCHANGED <<backupFile, tokensFile, adbDoc, tokens, name, k, i, qrcode_list, uris,
                   images, pdfWritten, ran, error, layoutVars, secretVars, uriVars>>

\* A check of adb's exit status alone.
BackupFailed_retOnly(ret, file) == ret # 0

\* line 44: ret != 0 or backup_path.stat().st_size == 0 (stat raises on no file).
BackupFailed(ret, file) == ret # 0 \/ file \in {"missing", "empty"}

\* backup_freeotp: adb writes what it writes and exits with ret.
Backup ==
    /\ pc = "backup"
    /\ \E ret \in {0, 1}, file \in ContainerStates :
         /\ backupFile' = file
         /\ IF ret # 0 \/ file \in {"missing", "empty"}
               THEN Failure("BackupUnavailable") ELSE error' = error
         /\ pc' = IF BackupFailed(ret, file) THEN "failed" ELSE "unwrap"
    /\ ran' = Append(ran, "backup")
    /\ UNCHANGED <<tokensFile, adbDoc, tokens, name, k, i, qrcode_list, uris,
                   images, pdfWritten, layoutVars, secretVars, uriVars>>

\* extract_tokens_file, lines 55-64: open, skip 24 bytes, zlib.decompress,
\* tarfile.open, tf.extract(APK_PATH).
Unwrap ==
    /\ pc = "unwrap"
    /\ ran' = Append(ran, "unwrap")
    /\ CASE backupFile = "good" ->
              /\ tokensFile' = TRUE /\ pc' = "parse" /\ error' = error
         [] backupFile = "noentry" ->
              /\ tokensFile' = tokensFile /\ pc' = "failed" /\ Failure("EntryNotFound")
         [] backupFile \in {"corrupt", "empty"} ->
              /\ tokensFile' = tokensFile /\ pc' = "failed" /\ Failure("CorruptContainer")
         [] backupFile = "missing" ->
              /\ tokensFile' = tokensFile /\ pc' = "failed" /\ Failure("FileNotFoundError")
    /\ UNCHANGED <<backupFile, adbDoc, tokens, name, k, i, qrcode_list, uris,
                   images, pdfWritten, layoutVars, secretVars, uriVars>>

\* line 75-76: ET.parse(...).getroot(); root.findall("string").
ParseOpen ==
    /\ pc = "parse"
    /\ ran' = Append(ran, "decode")
    /\ IF adbDoc.xml
          THEN pc' = "parse_loop" /\ error' = error
          ELSE pc' = "failed" /\ Failure("ParseError")
    /\ tokens' = <<>> /\ k' = 0 /\ name' = "UNBOUND"
    /\ UNCHANGED <<backupFile, tokensFile, adbDoc, i, qrcode_list, uris,
                   images, pdfWritten, layoutVars, secretVars, uriVars>>

\* A loop body that skips a value json.loads rejects.
ParseOutcome_skipBad(entry) ==
    IF entry.name = "tokenOrder" \/ ~entry.json THEN "continue" ELSE "append"

\* lines 77-81: what one iteration does with an element.
ParseOutcome(entry) ==
    IF entry.name = "tokenOrder" THEN "continue"
    ELSE IF ~entry.json THEN "raise"
    ELSE "append"

\* One iteration of the for loop of parse_tokens_from_xml.
ParseStep ==
    /\ pc = "parse_loop"
    /\ k < Len(adbDoc.entries)
    /\ LET entry == adbDoc.entries[k + 1]
           out   == ParseOutcome(entry)
       IN  /\ name' = entry.name
           /\ k' = k + 1
           /\ tokens' = IF out = "append" THEN Append(tokens, entry.obj) ELSE tokens
           /\ pc' = IF out = "raise" THEN "failed" ELSE "parse_loop"
           /\ IF entry.name # "tokenOrder" /\ ~entry.json
                 THEN Failure("MalformedRecord") ELSE error' = error
    /\ UNCHANGED <<backupFile, tokensFile, adbDoc, i, qrcode_list, uris,
                   images, pdfWritten, ran, layoutVars, secretVars, uriVars>>

\* line 82, after the loop: token_order.append(name) reads the loop's local
\* `name`, which no iteration has bound when the document has no <string>.
ParseReturn ==
    /\ pc = "parse_loop"
    /\ k = Len(adbDoc.entries)
    /\ IF name = "UNBOUND"
          THEN pc' = "failed" /\ Failure("UnboundLocalError")
          ELSE pc' = "generate_images" /\ error' = error
    /\ UNCHANGED <<backupFile, tokensFile, adbDoc, tokens, name, k, i, qrcode_list, uris,
                   images, pdfWritten, ran, layoutVars, secretVars, uriVars>>

----------------------------------------------------------------------------
(* generate_images                                                         *)

\* lines 100-105: i = 0, qrcode_list = [], the images directory.
EncodeEnter ==
    /\ pc = "generate_images"
    /\ i' = 0 /\ qrcode_list' = <<>>
    /\ ran' = Append(ran, "encode")
    /\ pc' = "encode"
    /\ UNCHANGED <<backupFile, tokensFile, adbDoc, tokens, name, k, uris,
                   images, pdfWritten, error, layoutVars, secretVars, uriVars>>

\* One iteration, lines 110-136, on a token that has every key subscripted and
\* that qrcode.make and img.save accept.
EncodeToken ==
    /\ pc = "encode"
    /\ i < Len(tokens)
    /\ HasKeys(tokens[i + 1])
    /\ uris' = Append(uris, Uri(tokens[i + 1], i))
    /\ images' = images \cup {ImageFile(i)}
    /\ qrcode_list' = Append(qrcode_list, <<Label(tokens[i + 1]), ImageFile(i)>>)
    /\ i' = i + 1
    /\ UNCHANGED <<pc, backupFile, tokensFile, adbDoc, tokens, name, k,
                   pdfWritten, ran, error, layoutVars, secretVars, uriVars>>

\* One iteration in which qrcode.make(uri) or img.save raises.
EncodeRenderFails ==
    /\ pc = "encode"
    /\ i < Len(tokens)
    /\ HasKeys(tokens[i + 1])
    /\ uris' = Append(uris, Uri(tokens[i + 1], i))
    /\ pc' = "failed" /\ Failure("RenderFailure")
    /\ UNCHANGED <<backupFile, tokensFile, adbDoc, tokens, name, k, i, qrcode_list,
                   images, pdfWritten, ran, layoutVars, secretVars, uriVars>>

\* One iteration on a token without one of the keys subscripted at lines
\* 120-130: KeyError, before the URI is built.
EncodeKeyError ==
    /\ pc = "encode"
    /\ i < Len(tokens)
    /\ ~HasKeys(tokens[i + 1])
    /\ pc' = "failed" /\ Failure("KeyError")
    /\ UNCHANGED <<backupFile, tokensFile, adbDoc, tokens, name, k, i, qrcode_list,
                   uris, images, pdfWritten, ran, layoutVars, secretVars, uriVars>>

\* line 138: return qrcode_list.
EncodeReturn ==
    /\ pc = "encode"
    /\ i = Len(tokens)
    /\ pc' = "sort"
    /\ UNCHANGED <<backupFile, tokensFile, adbDoc, tokens, name, k, i, qrcode_list,
                   uris, images, pdfWritten, ran, error, layoutVars, secretVars, uriVars>>

----------------------------------------------------------------------------
(* main lines 218-219, generate_doc, write_to_pdf_file                     *)

\* sorted(...), then generate_doc up to the first loop test: the old document
\* is unlinked, FPDF(), add_page(), x = 10, y = 10.
SortAndOpenDoc ==
    /\ pc = "sort"
    /\ layoutList' = sorted(qrcode_list)
    /\ pages' = 1 /\ x' = 10 /\ y' = 10 /\ idx' = 0 /\ placed' = <<>>
    /\ ran' = Append(ran, "layout")
    /\ pc' = "write_pdf"
    /\ UNCHANGED <<backupFile, tokensFile, adbDoc, tokens, name, k, i, qrcode_list,
                   uris, images, pdfWritten, error, secretVars, uriVars>>

\* One iteration of the for loop of write_to_pdf_file with its add_image.
LayoutStep ==
    /\ pc = "write_pdf"
    /\ idx < Len(layoutList)
    /\ LET w   == AfterWrap(x, y)
           np  == NeedsPage(w[2])
           pos == IF np THEN <<10, 10>> ELSE w
           pg  == IF np THEN pages + 1 ELSE pages
       IN  /\ pages' = pg
           /\ placed' = Append(placed,
                               [label |-> layoutList[idx + 1][1], image |-> layoutList[idx + 1][2],
                                page |-> pg, x |-> pos[1], y |-> pos[2],
                                tx |-> pos[1], ty |-> pos[2] + QRCODE_H + 2])
           /\ x' = Advance(pos[1])
           /\ y' = pos[2]
    /\ idx' = idx + 1
    /\ UNCHANGED <<pipeVars, layoutList, secretVars, uriVars>>

\* One iteration whose pdf.image or pdf.text raises: the cursor has moved, the
\* entry is not placed.
LayoutImageFails ==
    /\ pc = "write_pdf"
    /\ idx < Len(layoutList)
    /\ LET w   == AfterWrap(x, y)
           np  == NeedsPage(w[2])
           pos == IF np THEN <<10, 10>> ELSE w
       IN  /\ pages' = IF np THEN pages + 1 ELSE pages
           /\ x' = pos[1]
           /\ y' = pos[2]
    /\ pc' = "failed" /\ Failure("RenderFailure")
    /\ UNCHANGED <<backupFile, tokensFile, adbDoc, tokens, name, k, i, qrcode_list, uris,
                   images, pdfWritten, ran, layoutList, idx, placed, secretVars, uriVars>>

\* generate_doc line 177: pdf.output(pdf_path, "F").
Output ==
    /\ pc = "write_pdf"
    /\ idx = Len(layoutList)
    /\ pdfWritten' = TRUE
    /\ pc' = "clean"
    /\ UNCHANGED <<backupFile, tokensFile, adbDoc, tokens, name, k, i, qrcode_list, uris,
                   images, ran, error, layoutVars, secretVars, uriVars>>

\* pdf.output raises.
OutputFails ==
    /\ pc = "write_pdf"
    /\ idx = Len(layoutList)
    /\ pc' = "failed" /\ Failure("RenderFailure")
    /\ UNCHANGED <<backupFile, tokensFile, adbDoc, tokens, name, k, i, qrcode_list, uris,
                   images, pdfWritten, ran, layoutVars, secretVars, uriVars>>

\* main lines 220-221: clean(workdir) unless --noclean.
Clean ==
    /\ pc = "clean"
    /\ \E noclean \in BOOLEAN :
         IF noclean
            THEN UNCHANGED <<backupFile, tokensFile, images>>
            ELSE backupFile' = "missing" /\ tokensFile' = FALSE /\ images' = {}
    /\ pc' = "done"
    /\ UNCHANGED <<adbDoc, tokens, name, k, i, qrcode_list, uris,
                   pdfWritten, ran, error, layoutVars, secretVars, uriVars>>

Next ==
    \/ ParseEnter \/ ExtractEnter \/ Backup \/ Unwrap
    \/ ParseOpen \/ ParseStep \/ ParseReturn
    \/ EncodeEnter \/ EncodeToken \/ EncodeRenderFails \/ EncodeKeyError \/ EncodeReturn
    \/ SortAndOpenDoc \/ LayoutStep \/ LayoutImageFails \/ Output \/ OutputFails
    \/ Clean

\* main() run with --qrcodes on any work directory.
Spec == Init /\ [][Next]_vars

----------------------------------------------------------------------------
(* write_to_pdf_file on any list of entries                                *)

InitPipeIdle ==
    /\ backupFile = "missing" /\ tokensFile = FALSE
    /\ adbDoc = [xml |-> TRUE, entries |-> <<>>]
    /\ tokens = <<>> /\ name = "UNBOUND" /\ k = 0
    /\ pdfWritten = FALSE /\ ran = <<>> /\ error = "none"

\* generate_doc has made the first page; the list is sorted by caption.
InitLayout ==
    /\ pc = "write_pdf"
    /\ InitPipeIdle /\ InitEncodeIdle /\ InitSecretIdle /\ InitUriIdle
    /\ \E n \in 0..MaxEntries, lbl \in {L_Bob, L_Zed} :
         layoutList = [j \in 1..n |-> <<lbl, ImageFile(j - 1)>>]
    /\ idx = 0 /\ x = 10 /\ y = 10 /\ pages = 1 /\ placed = <<>>

NextLayout == LayoutStep \/ LayoutImageFails \/ Output \/ OutputFails

SpecLayout == InitLayout /\ [][NextLayout]_vars

----------------------------------------------------------------------------
(* Properties of the layout                                                *)

Abs(n) == IF n < 0 THEN -n ELSE n

\* The loop of write_to_pdf_file has consumed the whole list.
LayoutEnded == pc \in {"write_pdf", "clean", "done"} /\ idx = Len(layoutList)

\* Placements j-1 and j of a run whose rows hold `perRow` codes: the first of a
\* row is at x = 10 and 48 below the row before it, the others share their
\* predecessor's row.
RowsOf(perRow) ==
    \A j \in 1..Len(placed) :
        IF (j - 1) % perRow = 0
           THEN /\ placed[j].x = 10
                /\ j > 1 => /\ placed[j].y = placed[j - 1].y + 48
                            /\ placed[j].page = placed[j - 1].page
           ELSE /\ placed[j].x > placed[j - 1].x
                /\ placed[j].y = placed[j - 1].y
                /\ placed[j].page = placed[j - 1].page

\* C1 as the specification states it: with W = H = 35 and 10 entries a row
\* holds 4 placements; after the 4th placement of a row x is back at 10 and y
\* is 48 further down when the next entry is placed.
C1_RowHoldsFour == Len(layoutList) = 10 => RowsOf(4)

\* C1, amended: with W = H = 35 and 10 entries a row holds 2 placements; after
\* the 2nd placement of a row x is back at 10 and y is 48 further down when the
\* next entry is placed.
C1_RowHoldsTwo == Len(layoutList) = 10 => RowsOf(2)

\* Ten entries, all placed: five rows of two.
C1_Witness ==
    /\ Len(layoutList) = 10 /\ Len(placed) = 10
    /\ placed[2].x = 105 /\ placed[3].x = 10 /\ placed[3].y = 58

\* C2: every entry is placed exactly once, in input order, and no two codes
\* placed on the same page overlap: their positions differ by at least
\* QRCODE_W horizontally or at least QRCODE_H vertically.
C2_PlacedOnceNoOverlap ==
    /\ Len(placed) = idx
    /\ \A j \in 1..Len(placed) :
          /\ placed[j].label = layoutList[j][1]
          /\ placed[j].image = layoutList[j][2]
    /\ LayoutEnded => Len(placed) = Len(layoutList)
    /\ \A j, m \in 1..Len(placed) :
          (j < m /\ placed[j].page = placed[m].page)
             => \/ Abs(placed[j].x - placed[m].x) >= QRCODE_W
                \/ Abs(placed[j].y - placed[m].y) >= QRCODE_H

\* A list that fills more than one page has been laid out to its end.
C2_Witness == LayoutEnded /\ Len(placed) > 12 /\ pages = 2

\* The positions a page offers under the two thresholds.
ColsPerPage == Cardinality({c \in 0..10 : 10 + c * (QRCODE_W + 60) <= 150})
RowsPerPage == Cardinality({r \in 0..10 : 10 + r * (QRCODE_H + 13) <= 250})

\* The least number of pages (a document has at least one) that offer n positions.
MinPages(n) == CHOOSE p \in 1..(n + 1) :
                  /\ n <= p * ColsPerPage * RowsPerPage
                  /\ \A q \in 1..(p - 1) : n > q * ColsPerPage * RowsPerPage

\* The cursor's y when the next entry is about to be placed: after the row wrap.
YAtPlacement == IF x > 150 THEN y + QRCODE_H + 13 ELSE y

\* C3: a new page is started, and the cursor reset to (10, 10), exactly when
\* the cursor's y exceeds 250 as an entry is about to be placed; what has been
\* placed stays placed and is not placed again; the pages used for n entries
\* are the minimum the thresholds allow.
C3_NewPageExactlyOnOverflow ==
    /\ [][placed' # placed =>
            /\ (pages' = pages + 1) <=> (YAtPlacement > 250)
            /\ pages' \in {pages, pages + 1}
            /\ pages' = pages + 1 =>
                  /\ placed'[Len(placed')].x = 10 /\ placed'[Len(placed')].y = 10
                  /\ placed'[Len(placed')].page = pages'
            /\ Len(placed') = Len(placed) + 1
            /\ SubSeq(placed', 1, Len(placed)) = placed
            /\ \A j \in 1..Len(placed) : placed[j].image # placed'[Len(placed')].image
       ]_vars
    /\ [](LayoutEnded => pages = MinPages(Len(layoutList)))

\* The 13th entry opens page 2 at (10, 10).
C3_Witness ==
    /\ Len(placed) >= 13
    /\ placed[12].page = 1 /\ placed[12].y = 250
    /\ placed[13].page = 2 /\ placed[13].x = 10 /\ placed[13].y = 10

----------------------------------------------------------------------------
(* secret_to_b32 on any secret                                             *)

\* Byte values at the ends and in the middle of the signed range.
SecretVals == {-128, -1, 0, 1, 127}

\* Secrets of 1..MaxSecretLen such bytes, and every secret of one byte.
SecretInputs ==
    {s \in SeqsUpTo(SecretVals, MaxSecretLen) : Len(s) >= 1}
    \cup {<<b>> : b \in -128..127}

InitSecret ==
    /\ pc = "secret"
    /\ secret \in SecretInputs
    /\ code = <<>> /\ decoded = <<>>
    /\ InitPipeIdle /\ InitEncodeIdle /\ InitLayoutIdle /\ InitUriIdle

\* b32_secret = secret_to_b32(token['secret'])
EncodeSecret ==
    /\ pc = "secret"
    /\ code' = secret_to_b32(secret)
    /\ pc' = "secret_encoded"
    /\ UNCHANGED <<backupFile, tokensFile, adbDoc, tokens, name, k, i, qrcode_list, uris,
                   images, pdfWritten, ran, error, layoutVars, secret, decoded, uriVars>>

\* The reader of the code: base64.b32decode of the transmitted secret.
DecodeSecret ==
    /\ pc = "secret_encoded"
    /\ decoded' = b32decode(code)
    /\ pc' = "secret_decoded"
    /\ UNCHANGED <<backupFile, tokensFile, adbDoc, tokens, name, k, i, qrcode_list, uris,
                   images, pdfWritten, ran, error, layoutVars, secret, code, uriVars>>

NextSecret == EncodeSecret \/ DecodeSecret

SpecSecret == InitSecret /\ [][NextSecret]_vars

\* C7: Base32-decoding secret_to_b32(s) yields the bytes (b + 256) mod 256 of
\* s, and reading those bytes as signed gives s back.
C7_SecretRoundTrip ==
    pc = "secret_decoded" =>
        /\ Len(decoded) = Len(secret)
        /\ \A j \in 1..Len(secret) :
              /\ decoded[j] \in 0..255
              /\ decoded[j] = (secret[j] + 256) % 256
              /\ ToSigned(decoded[j]) = secret[j]

\* A secret with negative bytes and a padded last group has made the round trip.
C7_Witness ==
    /\ pc = "secret_decoded"
    /\ secret = <<-1, -128, 127>>
    /\ decoded = <<255, 128, 127>>
    /\ code[Len(code)] = 61

----------------------------------------------------------------------------
(* generate_images on any list of tokens                                   *)

OptionalFields == <<"issuerInt", "issuerExt", "issuerAlt", "labelAlt">>

FieldValue(f) == CASE f = "issuerInt" -> L_Int [] f = "issuerExt" -> L_Ext
                   [] f = "issuerAlt" -> L_Alt [] f = "labelAlt" -> L_LAlt

\* A token with exactly the optional fields of `present`, those of `empty` as "".
WithOptional(present, empty) ==
    [f \in RequiredKeys \cup present |->
        IF f \in RequiredKeys THEN BaseToken(L_alice)[f]
        ELSE IF f \in empty THEN <<>> ELSE FieldValue(f)]

\* Every choice of optional fields present, with none or one of them empty,
\* and two tokens that lack a key the loop subscripts.
EncodeTokens ==
    {WithOptional(ps, {}) : ps \in SUBSET {"issuerInt", "issuerExt", "issuerAlt", "labelAlt"}}
    \cup {WithOptional({"issuerInt", "issuerExt", "issuerAlt", "labelAlt"}, {"issuerInt"}),
          WithOptional({"issuerExt", "issuerAlt", "labelAlt"}, {"issuerExt"}),
          WithOptional({"issuerAlt", "labelAlt"}, {"issuerAlt"}),
          WithOptional({"labelAlt"}, {"labelAlt"})}
    \cup {Without(BaseToken(L_Bob), "algo"),
          Without(BaseToken(L_Bob) @@ [issuerExt |-> L_Ext], "label")}

InitEncode ==
    /\ pc = "generate_images"
    /\ tokens \in SeqsUpTo(EncodeTokens, MaxTokens)
    /\ backupFile = "missing" /\ tokensFile = TRUE
    /\ adbDoc = [xml |-> TRUE, entries |-> <<>>]
    /\ name = "UNBOUND" /\ k = 0
    /\ pdfWritten = FALSE /\ ran = <<>> /\ error = "none"
    /\ InitEncodeIdle /\ InitLayoutIdle /\ InitSecretIdle /\ InitUriIdle

NextEncode == EncodeEnter \/ EncodeToken \/ EncodeRenderFails \/ EncodeKeyError \/ EncodeReturn

SpecEncode == InitEncode /\ [][NextEncode]_vars

\* Whether `sub` occurs in `s`.
Contains(s, sub) ==
    \E o \in 0..(Len(s) - Len(sub)) : SubSeq(s, o + 1, o + Len(sub)) = sub

\* The first non-empty of the optional fields from position p on, or none.
RECURSIVE FirstNonEmpty(_, _)
FirstNonEmpty(token, p) ==
    IF p > Len(OptionalFields) THEN <<>>
    ELSE IF OptionalFields[p] \in DOMAIN token /\ Len(token[OptionalFields[p]]) > 0
         THEN token[OptionalFields[p]]
    ELSE FirstNonEmpty(token, p + 1)

\* "Unknown" followed by the decimal digits of a position below 10.
UnknownAt(n) == S_Unknown \o <<48 + n>>

ExpectedIssuer(token, n) ==
    IF FirstNonEmpty(token, 1) # <<>> THEN FirstNonEmpty(token, 1) ELSE UnknownAt(n)

\* C5: the issuer written into the j-th URI is the first non-empty of
\* issuerInt, issuerExt, issuerAlt, labelAlt of the j-th record, and
\* Unknown<j-1> when all four are empty or absent.
C5_IssuerPriority ==
    \A j \in 1..Len(uris) :
        Contains(uris[j],
                 <<38>> \o S_issuer \o <<61>> \o ExpectedIssuer(tokens[j], j - 1)
                        \o <<38>> \o S_algorithm \o <<61>>)

\* The first record has only issuerAlt and labelAlt, the second has no
\* optional field: the issuers written are "Alt" and "Unknown1".
C5_Witness ==
    /\ Len(uris) = 2
    /\ DOMAIN tokens[1] = RequiredKeys \cup {"issuerAlt", "labelAlt"}
    /\ Contains(uris[1], <<38>> \o S_issuer \o <<61>> \o L_Alt \o <<38>>)
    /\ DOMAIN tokens[2] = RequiredKeys
    /\ Contains(uris[2], <<38>> \o S_issuer \o <<61>> \o S_Unknown \o <<49, 38>>)

----------------------------------------------------------------------------
(* The URI of one token, and of the token with one field changed           *)

L_a       == <<97>>                                      \* "a"
L_ab      == <<97, 98>>                                  \* "ab"
L_a_b     == <<97, 32, 98>>                              \* "a b"
L_e_x     == <<233, 47, 120>>                            \* "e-acute/x"
L_Unknown0 == <<85, 110, 107, 110, 111, 119, 110, 48>>   \* "Unknown0"

\* The values each field is drawn from; "absent" is the key not being there.
UriFields == {"label", "secret", "algo", "digits", "period",
              "issuerInt", "issuerExt", "issuerAlt", "labelAlt"}

FieldDomain(f) ==
    CASE f = "label"     -> {L_a, L_ab, L_a_b, L_e_x}
      [] f = "secret"    -> {<<1>>, <<-1>>, <<1, -128>>}
      [] f = "algo"      -> {L_SHA1, L_SHA256}
      [] f = "digits"    -> {6, 8}
      [] f = "period"    -> {30, 60}
      [] f = "issuerInt" -> {<<>>, L_Int, L_Unknown0}
      [] f = "issuerExt" -> {L_Ext}
      [] f = "issuerAlt" -> {L_Alt}
      [] f = "labelAlt"  -> {L_LAlt}

IsOptional(f) == f \in {"issuerInt", "issuerExt", "issuerAlt", "labelAlt"}

UriTokens ==
    { [type |-> L_TOTP, label |-> lb, secret |-> se, algo |-> al, digits |-> di,
       period |-> pe] @@ [f \in opt |-> IF f = "issuerInt" THEN ii ELSE FieldValue(f)] :
        lb \in FieldDomain("label"), se \in FieldDomain("secret"),
        al \in FieldDomain("algo"), di \in FieldDomain("digits"),
        pe \in FieldDomain("period"), ii \in FieldDomain("issuerInt"),
        opt \in SUBSET {"issuerInt", "issuerExt", "issuerAlt", "labelAlt"} }

InitUri ==
    /\ pc = "uri"
    /\ tokenA \in UriTokens
    /\ tokenB = tokenA
    /\ uriA = <<>> /\ uriB = <<>>
    /\ InitPipeIdle /\ InitEncodeIdle /\ InitLayoutIdle /\ InitSecretIdle

\* Lines 110-130 on the token at counter i = n.
EncodeUriA ==
    /\ pc = "uri"
    /\ \E n \in {0, 1} :
         /\ i' = n
         /\ uriA' = Uri(tokenA, n)
    /\ pc' = "uri_a"
    /\ UNCHANGED <<backupFile, tokensFile, adbDoc, tokens, name, k, qrcode_list, uris,
                   images, pdfWritten, ran, error, layoutVars, secretVars, tokenA, tokenB, uriB>>

\* Lines 110-130 again at the same counter, on the same token ...
EncodeUriSame ==
    /\ pc = "uri_a"
    /\ tokenB' = tokenA
    /\ uriB' = Uri(tokenA, i)
    /\ pc' = "uri_b"
    /\ UNCHANGED <<backupFile, tokensFile, adbDoc, tokens, name, k, i, qrcode_list, uris,
                   images, pdfWritten, ran, error, layoutVars, secretVars, tokenA, uriA>>

\* ... or on the token with one field given another value, added or removed.
EncodeUriChanged ==
    /\ pc = "uri_a"
    /\ \E f \in UriFields :
         \/ \E v \in FieldDomain(f) :
               /\ IF f \in DOMAIN tokenA THEN tokenA[f] # v ELSE TRUE
               /\ tokenB' = WithField(tokenA, f, v)
         \/ /\ IsOptional(f) /\ f \in DOMAIN tokenA
            /\ tokenB' = Without(tokenA, f)
    /\ uriB' = Uri(tokenB', i)
    /\ pc' = "uri_b"
    /\ UNCHANGED <<backupFile, tokensFile, adbDoc, tokens, name, k, i, qrcode_list, uris,
                   images, pdfWritten, ran, error, layoutVars, secretVars, tokenA, uriA>>

NextUri == EncodeUriA \/ EncodeUriSame \/ EncodeUriChanged

SpecUri == InitUri /\ [][NextUri]_vars

\* The field in which two tokens differ, when it is the only one.
DiffersOnlyIn(a, b, f) ==
    /\ (f \in DOMAIN a) # (f \in DOMAIN b) \/ (f \in DOMAIN a /\ f \in DOMAIN b /\ a[f] # b[f])
    /\ \A g \in (DOMAIN a \cup DOMAIN b) \ {f} :
          g \in DOMAIN a /\ g \in DOMAIN b /\ a[g] = b[g]

\* C6: the same record at the same index gives the same URI, and a record
\* that differs in its label, its secret, its algorithm, its digits or its
\* period alone, or in one issuer field so that the issuer it resolves to
\* differs, gives another URI.
C6_UriSensitive ==
    pc = "uri_b" =>
        /\ tokenA = tokenB => uriA = uriB
        /\ \A f \in {"label", "secret", "algo", "digits", "period"} :
              DiffersOnlyIn(tokenA, tokenB, f) => uriA # uriB
        /\ \A f \in {"issuerInt", "issuerExt", "issuerAlt", "labelAlt"} :
              (DiffersOnlyIn(tokenA, tokenB, f)
                 /\ ExpectedIssuer(tokenA, i) # ExpectedIssuer(tokenB, i)) => uriA # uriB

\* Two labels that differ only in a character quote escapes have been encoded.
C6_Witness ==
    /\ pc = "uri_b"
    /\ tokenA["label"] = L_ab /\ tokenB["label"] = L_a_b
    /\ DiffersOnlyIn(tokenA, tokenB, "label")
    /\ uriA # uriB

----------------------------------------------------------------------------
(* Properties of the run of main()                                         *)

InSeq(e, s) == \E j \in 1..Len(s) : s[j] = e

Reserved(entry) == entry.name = "tokenOrder"

\* The records of a document: the values of its non-reserved entries, in order.
RecordsOf(entries) ==
    LET kept == SelectSeq(entries, LAMBDA e : ~Reserved(e))
    IN  [j \in 1..Len(kept) |-> kept[j].obj]

CaptionsOf(list) == [j \in 1..Len(list) |-> list[j][1]]

Ascending(caps) == \A j \in 1..(Len(caps) - 1) : ~StrLess(caps[j + 1], caps[j])

Bijections(n) == {f \in [1..n -> 1..n] : \A a, b \in 1..n : f[a] = f[b] => a = b}

\* The captions main() hands to generate_doc for a document of these entries.
CaptionsFor(entries) ==
    LET recs == RecordsOf(entries)
    IN  CaptionsOf(sorted([j \in 1..Len(recs) |-> <<Label(recs[j]), ImageFile(j - 1)>>]))

\* C4: the entries handed to the layout are in ascending lexicographic order of
\* caption, they are the captions of the document's records, and every
\* permutation of the document's entries gives the same sequence of captions.
C4_SortedByCaption ==
    InSeq("layout", ran) =>
        /\ Ascending(CaptionsOf(layoutList))
        /\ Len(layoutList) = Len(RecordsOf(adbDoc.entries))
        /\ \A f \in Bijections(Len(adbDoc.entries)) :
              CaptionsFor([j \in 1..Len(adbDoc.entries) |-> adbDoc.entries[f[j]]])
                 = CaptionsOf(layoutList)

\* "Zed" was decoded before "Acme:alice@x.com" and is laid out after it.
C4_Witness ==
    /\ pdfWritten
    /\ adbDoc.entries = <<E_zed, E_acme>>
    /\ CaptionsOf(layoutList) = <<L_Acme \o <<58>> \o L_alice, L_Zed>>

\* A non-reserved entry whose value json.loads rejects.
HasNotJson(doc) == \E j \in 1..Len(doc.entries) : ~Reserved(doc.entries[j]) /\ ~doc.entries[j].json

\* A non-reserved entry whose JSON object lacks a required key.
LacksKey(entry) == ~Reserved(entry) /\ entry.json /\ ~HasKeys(entry.obj)

HasLackingKey(doc) == \E j \in 1..Len(doc.entries) : LacksKey(doc.entries[j])

\* generate_images has been entered or passed.
PastDecode == pc \in {"generate_images", "encode", "sort", "write_pdf", "clean", "done"}
              \/ InSeq("encode", ran)

\* C8 as the specification states it: a value that is not JSON, or that lacks
\* a required field, fails the run at the decode stage, before any record of
\* the file is encoded: no URI, no image.
C8_MalformedFailsAtDecode ==
    (HasNotJson(adbDoc) \/ HasLackingKey(adbDoc)) =>
        /\ ~PastDecode
        /\ uris = <<>>
        /\ images = {}

\* The records that precede the first one lacking a key.
BeforeFirstLacking(doc) ==
    LET recs  == RecordsOf(doc.entries)
        first == CHOOSE j \in 1..Len(recs) :
                    ~HasKeys(recs[j]) /\ \A m \in 1..(j - 1) : HasKeys(recs[m])
    IN  first - 1

\* C8, amended: a value that is not JSON fails the run at the decode stage,
\* before any record is encoded. A JSON value that lacks a required key is not
\* detected by decode: the run fails in the encode stage when that record is
\* reached, after the records before it have been encoded, and no document is
\* written.
C8_NotJsonFailsAtDecode ==
    /\ HasNotJson(adbDoc) =>
          /\ ~PastDecode /\ uris = <<>> /\ images = {}
          /\ (pc = "failed" /\ InSeq("decode", ran)) => error = "MalformedRecord"
    /\ (~HasNotJson(adbDoc) /\ HasLackingKey(adbDoc)) =>
          /\ ~pdfWritten /\ pc \notin {"sort", "write_pdf", "clean", "done"}
          /\ (pc = "failed" /\ InSeq("decode", ran)) =>
                /\ InSeq("encode", ran)
                /\ error \in {"KeyError", "RenderFailure"}
                /\ Len(uris) <= BeforeFirstLacking(adbDoc) + 1
                /\ error = "KeyError" =>
                      /\ Len(uris) = BeforeFirstLacking(adbDoc)
                      /\ Cardinality(images) = BeforeFirstLacking(adbDoc)

\* The record without 'secret' follows a complete one: one URI and one image
\* exist when the run fails.
C8_Witness ==
    /\ adbDoc.entries = <<E_zed, E_nosecret>>
    /\ pc = "failed" /\ error = "KeyError"
    /\ Len(uris) = 1 /\ images = {ImageFile(0)}

\* The order of the stages.
StageRank(s) == CASE s = "backup" -> 1 [] s = "unwrap" -> 2 [] s = "decode" -> 3
                  [] s = "encode" -> 4 [] s = "layout" -> 5

\* C9: the stages run in the order backup, unwrap, decode, encode, layout, the
\* backup only when the container is missing or empty; once a stage has
\* failed no later stage runs and no document is written, and a written
\* document means every stage from decode on ran without failure.
C9_AllOrNothing ==
    /\ [](\A a, b \in 1..Len(ran) : a < b => StageRank(ran[a]) < StageRank(ran[b]))
    /\ [][ran' # ran /\ ran'[Len(ran')] = "backup"
             => backupFile \in {"missing", "empty"}]_vars
    /\ [][error # "none" => (ran' = ran /\ pdfWritten' = pdfWritten)]_vars
    /\ [](error # "none" => ~pdfWritten /\ pc = "failed")
    /\ [](pdfWritten => /\ error = "none"
                        /\ InSeq("decode", ran) /\ InSeq("encode", ran)
                        /\ InSeq("layout", ran))

\* The backup ran, its container did not inflate, and the run stopped in unwrap.
C9_Witness ==
    /\ pc = "failed" /\ error = "CorruptContainer"
    /\ ran = <<"backup", "unwrap">>
    /\ ~pdfWritten

\* Every non-reserved value of the document is JSON.
WellFormed(doc) == doc.xml /\ ~HasNotJson(doc)

\* parse_tokens_from_xml has returned or raised.
DecodeEnded == InSeq("decode", ran) /\ pc # "parse_loop"

\* C10: on a well-formed document with any number of entries, zero included,
\* decode returns one record per non-reserved entry, in document order.
C10_OneRecordPerEntry ==
    (WellFormed(adbDoc) /\ DecodeEnded) =>
        /\ error # "UnboundLocalError"
        /\ tokens = RecordsOf(adbDoc.entries)

====
